---- MODULE Spec2Model ----
(***************************************************************************)
(* Model of tasks/build-api.js: the build of the JSON API and of the image *)
(* variants.  A call of buildApiMaster is modelled at the granularity of   *)
(* the JavaScript event loop: an external callback (im.identify,           *)
(* im.resize) is one action, and every promise handler that Q schedules is *)
(* one action taken from a FIFO queue of ticks, which is drained before    *)
(* the next external callback runs.  PathSpec applies createImageVariant's *)
(* path computation on its own, under further configurations.              *)
(***************************************************************************)
EXTENDS Integers, Sequences, FiniteSets, TLC

\* ------------------------------------------------------------------ bounds
\* The size of a run: the configured imThreadConcurrency, plus the rounds of
\* src/questions/index.json, plus twice the question directories they
\* reference (questions and examples), plus the external calls that deviate
\* from "the jpg exists, the png does not, the resize succeeds".
MaxSize == 7
\* The calls of buildApiMaster made in one process.
MaxRuns == 2
\* The variant paths built in one behaviour of PathSpec, and the round ids
\* they are built from.
MaxPaths == 2
MaxRoundId == 1

\* --------------------------------------------------------- program constants
imgKeys == <<"a", "b", "mix">>
imgTypes == <<"png", "jpg">>
\* questionId of the example question.
ExampleId_number == "0"
ExampleId == "e"

\* The defaults object, extended with build-api-config.json: the model takes
\* two of the widths and lets the concurrency be configured.
ImgSizes == <<320, 640>>
Configs ==
  { [apiOutputDir |-> "./dist/api/", imageOutputSubDir |-> "imgs/",
     apiPathPrefix |-> "/", imgSizes |-> ImgSizes, imgFormat |-> "jpg",
     imThreadConcurrency |-> c] : c \in 1..(MaxSize - 1) }

\* String(n) for the numbers that end up in ids and paths.
ToStr(n) ==
  CASE n = 0 -> "0" [] n = 1 -> "1" [] n = 2 -> "2" [] n = 3 -> "3"
    [] n = 4 -> "4" [] n = 5 -> "5" [] n = 6 -> "6" [] n = 320 -> "320" [] n = 640 -> "640"
    [] n = 960 -> "960"

Range(s) == { s[i] : i \in DOMAIN s }

\* ------------------------------------------------------------ content tree
\* A question directory with an index.json, and one without.
Dirs == {"question-name", "no-index"}
NoExample == ""
\* Whether src/questions/<dir>/index.json can be loaded.
IndexJsonExists(dir) == dir = "question-name"

\* Position 0 of a round is its example question, 1..n its declared questions.
ExamplePos == 0

\* The round objects of src/questions/index.json as require() returns them.
\* "fields" are the own properties of the object.
RoundObject(qs, ex) ==
  [fields |-> {"title", "questions"} \cup (IF ex = NoExample THEN {} ELSE {"example"}),
   title |-> "Round", questions |-> qs, example |-> ex,
   roundId |-> -1, questionsData |-> <<>>, exampleData |-> {},
   questionsLeft |-> 0, promise |-> "none"]

Refs(rd) == Len(rd.questions) + (IF rd.example = NoExample THEN 0 ELSE 1)

RECURSIVE SumRefs(_)
SumRefs(rs) == IF rs = <<>> THEN 0 ELSE Refs(Head(rs)) + SumRefs(Tail(rs))

\* The round objects with at most `refs` references.
RoundObjects(refs) ==
  { rd \in { RoundObject(qs, ex) :
               qs \in UNION { [1..n -> Dirs] : n \in 0..refs },
               ex \in Dirs \cup {NoExample} } : Refs(rd) <= refs }

\* The index files with rounds + 2 * references <= size.
RECURSIVE ContentTrees(_)
ContentTrees(size) ==
  {<<>>} \cup
  UNION { { <<rd>> \o t : t \in ContentTrees(size - 1 - 2 * Refs(rd)) } :
            rd \in RoundObjects((size - 1) \div 2) }

\* What an earlier build may have left under apiOutputDir.
PreviousTrees(cfg) == { {}, {<<cfg.apiOutputDir, cfg.imageOutputSubDir, "old.jpg">>} }

VARIABLES
  config,                    \* the merged configuration
  questionsData,             \* the round objects (mutated by processRound)
  question,                  \* the cloned question objects, by <<round, position>>
  img,                       \* createImageVariants' closure, by <<round, position, imgName>>
  variant,                   \* createImageVariant's promise, by <<round, position, imgName, size>>
  threadManager_imIdentify,  \* limiter of the identify calls
  threadManager_imResize,    \* limiter of the resize calls
  build,                     \* buildApiMaster's closure: apiData, roundPromises, taskComplete
  indexFile,                 \* what saveJsonApi wrote
  files,                     \* the image files written
  tickQueue                  \* promise handlers scheduled by Q, in order

vars == <<config, questionsData, question, img, variant, threadManager_imIdentify,
          threadManager_imResize, build, indexFile, files, tickQueue>>

\* The question objects, image closures and variant promises created so far.
Insts == DOMAIN question
Imgs == DOMAIN img
Variants == DOMAIN variant

\* --------------------------------------------------------------- ThreadManager
\* helpers/ThreadManager: newThread(fn) runs fn at once while fewer than
\* `concurrency` threads are running and queues it otherwise; thread.resolve()
\* frees the slot and starts the head of the queue.
ThreadManager(concurrency) ==
  [concurrency |-> concurrency, running |-> {}, queue |-> <<>>]

newThread(tm, t) ==
  IF Cardinality(tm.running) < tm.concurrency
  THEN [tm EXCEPT !.running = @ \cup {t}]
  ELSE [tm EXCEPT !.queue = Append(@, t)]

threadResolve(tm, t) ==
  IF tm.queue # <<>>
  THEN [tm EXCEPT !.running = (@ \ {t}) \cup {Head(tm.queue)}, !.queue = Tail(@)]
  ELSE [tm EXCEPT !.running = @ \ {t}]

RECURSIVE newThreads(_, _)
newThreads(tm, ts) ==
  IF ts = <<>> THEN tm ELSE newThreads(newThread(tm, Head(ts)), Tail(ts))

\* The two thread managers the module sets up.
imIdentifyThreads_defaults(cfg) == ThreadManager(20)
imIdentifyThreads(cfg) == ThreadManager(cfg.imThreadConcurrency)
imResizeThreads(cfg) == ThreadManager(cfg.imThreadConcurrency)

\* Q.allSettled(promises) settles with the last of its promises: `left` of
\* them were pending before this one settled.
allSettled_any(left) == TRUE
allSettled_first(left) == left = 2
allSettled(left) == left = 1

RECURSIVE Concat(_)
Concat(ss) == IF ss = <<>> THEN <<>> ELSE Head(ss) \o Concat(Tail(ss))

\* A scheduled promise handler.
Tick(kind, r, p, k, s) == [kind |-> kind, r |-> r, p |-> p, img |-> k, size |-> s]

\* ------------------------------------------------------------- processRound
\* require('../src/questions/<dir>/index.json'): the object, or null when the
\* require throws.
getQuestionData_noCatch(questionDir) == TRUE
getQuestionData(questionDir) == IndexJsonExists(questionDir)

\* The walk over roundData.questions: the questionId given to each declared
\* question, NoId where getQuestionData returned null.
NoId == ""
RECURSIVE forEachQuestion_index(_, _, _)
forEachQuestion_index(questions, i, questionId) ==
  IF i > Len(questions) THEN <<>>
  ELSE IF getQuestionData(questions[i])
       THEN <<ToStr(questionId)>> \o forEachQuestion_index(questions, i + 1, questionId + 1)
       ELSE <<NoId>> \o forEachQuestion_index(questions, i + 1, questionId + 1)

RECURSIVE forEachQuestion(_, _, _)
forEachQuestion(questions, i, questionId) ==
  IF i > Len(questions) THEN <<>>
  ELSE IF getQuestionData(questions[i])
       THEN <<ToStr(questionId)>> \o forEachQuestion(questions, i + 1, questionId + 1)
       ELSE <<NoId>> \o forEachQuestion(questions, i + 1, questionId)

\* The positions of a round for which createQuestionsImages is called, in call
\* order: the declared questions with data, then the example.
HasExample(rd) ==
  "example" \in rd.fields /\ rd.example # NoExample /\ getQuestionData(rd.example)

Started(rd) ==
  LET ids == forEachQuestion(rd.questions, 1, 0)
  IN  SelectSeq([p \in 1..Len(rd.questions) |-> p], LAMBDA p : ids[p] # NoId)
        \o (IF HasExample(rd) THEN <<ExamplePos>> ELSE <<>>)

QuestionIdAt(rd, p) ==
  IF p = ExamplePos THEN ExampleId ELSE forEachQuestion(rd.questions, 1, 0)[p]

DirAt(rd, p) == IF p = ExamplePos THEN rd.example ELSE rd.questions[p]

\* roundData.questions.forEach throws a TypeError when the round object has no
\* questions property: require() caches index.json, so a later call of
\* buildApiMaster gets the round objects as the earlier call left them.
processRound_throws(rd) == "questions" \notin rd.fields

\* processRound's changes to the round object up to that forEach.
processRound_start(rd, i) ==
  [rd EXCEPT !.fields = @ \cup {"roundId", "questionsData"},
             !.roundId = i,
             !.questionsData = <<>>]

\* processRound's changes to the round object.
processRound(rd, i) ==
  [rd EXCEPT !.fields = (@ \ {"questions", "example"}) \cup {"roundId", "questionsData"},
             !.roundId = i,
             !.questionsData = <<>>,
             !.questionsLeft = Len(Started(rd)),
             !.promise = "pending"]

\* The identify calls of one createQuestionsImages call, in submission order.
ProbesOf(r, p) ==
  [j \in 1..(2 * Len(imgKeys)) |-> <<r, p, imgKeys[(j + 1) \div 2], imgTypes[2 - (j % 2)]>>]

Init ==
  /\ config \in Configs
  /\ questionsData \in ContentTrees(MaxSize - config.imThreadConcurrency)
  /\ question = <<>>
  /\ img = <<>>
  /\ variant = <<>>
  /\ threadManager_imIdentify = imIdentifyThreads(config)
  /\ threadManager_imResize = imResizeThreads(config)
  /\ build = [pc |-> "idle", refs |-> SumRefs(questionsData), roundsLeft |-> 0,
              rounds |-> {}, taskComplete |-> FALSE, indexWrites |-> 0,
              run |-> 0, prev |-> [indexFile |-> {}, files |-> {}, faults |-> 0]]
  /\ indexFile = {}
  /\ files \in PreviousTrees(config)
  /\ tickQueue = <<>>

\* ------------------------------------------------------------ external calls
\* External calls of the run so far that deviated from the plain content tree.
NumFaults ==
  Cardinality({ x \in Imgs : img[x].png = "resolved" })
    + Cardinality({ x \in Imgs : img[x].jpg = "rejected" })
    + Cardinality({ v \in Variants : variant[v] = "rejected" })

\* Whether the run has room for one more such call.
MayDeviate ==
  config.imThreadConcurrency + Len(questionsData) + 2 * build.refs + NumFaults < MaxSize

\* ------------------------------------------------------------ buildApiMaster
\* buildApiMaster may be called when the module is loaded, and again once the
\* promise it returned has resolved or the call has thrown.
MayCall ==
  \/ build.pc = "idle"
  \/ /\ build.run < MaxRuns
     /\ tickQueue = <<>>
     /\ \/ build.pc = "threw"
        \/ build.pc = "running" /\ build.taskComplete

\* buildApiMaster's closure at the start of a call; prev keeps what the call
\* before it had produced.
NewBuild(pc, n) ==
  [build EXCEPT !.pc = pc, !.roundsLeft = n, !.rounds = {}, !.taskComplete = FALSE,
                !.indexWrites = 0, !.run = @ + 1,
                !.prev = IF build.run = 0 THEN @
                         ELSE [indexFile |-> indexFile, files |-> files, faults |-> NumFaults]]

\* The synchronous part of buildApiMaster: every processRound, forEachQuestion,
\* createQuestionsImages and createImageVariants call up to the first return
\* to the event loop.  The output tree is deleted first; a processRound that
\* throws ends the call there.
BuildApiMaster ==
  /\ MayCall
  /\ files' = {}
  /\ indexFile' = {}
  /\ LET n == Len(questionsData)
         started(i) == Started(questionsData[i])
         insts == UNION { { <<i - 1, p>> : p \in Range(started(i)) } : i \in 1..n }
         probes == Concat([i \in 1..n |->
                      Concat([j \in 1..Len(started(i)) |-> ProbesOf(i - 1, started(i)[j])])])
     IN  IF n > 0 /\ processRound_throws(questionsData[1])
         THEN /\ questionsData' = [questionsData EXCEPT ![1] = processRound_start(@, 0)]
              /\ build' = NewBuild("threw", 0)
              /\ UNCHANGED <<question, img, variant, threadManager_imIdentify, tickQueue>>
         ELSE /\ question' = [x \in insts |->
                   [state |-> "pending",
                    questionId |-> QuestionIdAt(questionsData[x[1] + 1], x[2]),
                    dir |-> DirAt(questionsData[x[1] + 1], x[2]),
                    roundId |-> x[1],
                    title |-> questionsData[x[1] + 1].title,
                    tempImgsData |-> {}, imgsLeft |-> Len(imgKeys),
                    hasImgs |-> FALSE, imgs |-> {}]]
              /\ img' = [x \in { <<y[1], y[2], k>> : y \in insts, k \in Range(imgKeys) } |->
                   [png |-> "pending", jpg |-> "pending", probesLeft |-> Len(imgTypes),
                    path |-> "", threw |-> FALSE, aspectRatio |-> "", srcs |-> <<>>,
                    variantsLeft |-> 0, promise |-> "pending", imgReady |-> "pending"]]
              /\ variant' = <<>>
              /\ threadManager_imIdentify' = newThreads(threadManager_imIdentify, probes)
              /\ questionsData' = [i \in 1..n |-> processRound(questionsData[i], i - 1)]
              /\ tickQueue' =
                   Concat([i \in 1..n |->
                     IF started(i) = <<>>
                     THEN <<Tick("onQuestionsSettled", i - 1, 0, "", 0)>> ELSE <<>>])
                   \o (IF n = 0 THEN <<Tick("onRoundsSettled", 0, 0, "", 0)>> ELSE <<>>)
              /\ build' = NewBuild("running", n)
  /\ UNCHANGED <<config, threadManager_imResize>>

\* The file name without the question: two questions of a round get the same.
outputFileName_noQuestion(roundId, questionId, imgName, size) ==
  << config.apiOutputDir, config.imageOutputSubDir,
     "round-", ToStr(roundId), "/", imgName, "/",
     "r", ToStr(roundId), ".", imgName, ".", ToStr(size), ".", config.imgFormat >>

\* outputDir + '/' + imgName + '/' + 'r' + roundId + 'q' + questionId + ..., as
\* the sequence of the strings concatenated.
outputFileName(roundId, questionId, imgName, size) ==
  << config.apiOutputDir, config.imageOutputSubDir,
     "round-", ToStr(roundId), "/", "question-", questionId, "/", imgName, "/",
     "r", ToStr(roundId), "q", questionId, ".", imgName, ".", ToStr(size), ".",
     config.imgFormat >>

\* String.prototype.split on such a sequence.
RECURSIVE split(_, _)
split(s, sep) ==
  IF \A i \in DOMAIN s : s[i] # sep THEN <<s>>
  ELSE LET i == CHOOSE j \in DOMAIN s : s[j] = sep /\ \A l \in 1..(j - 1) : s[l] # sep
       IN  <<SubSeq(s, 1, i - 1)>> \o split(SubSeq(s, i + 1, Len(s)), sep)

apiFilePath(fileName) ==
  LET parts == split(fileName, config.apiOutputDir)
  IN  IF Len(parts) = 1 THEN parts[1] ELSE <<config.apiPathPrefix>> \o parts[2]

\* The callback of im.identify for one format of one image.
IdentifyCallback(t) ==
  /\ tickQueue = <<>>
  /\ t \in threadManager_imIdentify.running
  /\ \E metadata \in BOOLEAN :
       LET x == <<t[1], t[2], t[3]>>
           fault == (t[4] = "png") = metadata
       IN  /\ fault => MayDeviate
           /\ img' = [img EXCEPT ![x] =
                IF metadata THEN [@ EXCEPT !.path = t[4], ![t[4]] = "resolved"]
                ELSE [@ EXCEPT ![t[4]] = "rejected"]]
  /\ threadManager_imIdentify' = threadResolve(threadManager_imIdentify, t)
  /\ tickQueue' = <<Tick("foundImgSettled", t[1], t[2], t[3], 0)>>
  /\ UNCHANGED <<config, questionsData, question, variant, threadManager_imResize,
                 build, indexFile, files>>

\* What the callback of im.resize does with the thread, and the handlers of
\* the variant's promise that Q schedules: on an error the promise is rejected
\* and the callback returns.
resizeThread(tm, v, err) == IF err THEN tm ELSE threadResolve(tm, v)

variantTicks_settleOnly(v, err) ==
  <<Tick("variantSettled", v[1], v[2], v[3], v[4])>>
variantTicks_always(v, err) ==
  <<Tick("saveSrc", v[1], v[2], v[3], v[4]), Tick("variantSettled", v[1], v[2], v[3], v[4])>>
variantTicks(v, err) ==
  (IF err THEN <<>> ELSE <<Tick("saveSrc", v[1], v[2], v[3], v[4])>>)
    \o <<Tick("variantSettled", v[1], v[2], v[3], v[4])>>

\* The callback of im.resize for one size of one image.
ResizeCallback(v) ==
  /\ tickQueue = <<>>
  /\ v \in threadManager_imResize.running
  /\ variant[v] = "pending"
  /\ \E err \in BOOLEAN :
       /\ err => MayDeviate
       /\ variant' = [variant EXCEPT ![v] = IF err THEN "rejected" ELSE "fulfilled"]
       /\ files' = IF err THEN files
                   ELSE files \cup {outputFileName(question[<<v[1], v[2]>>].roundId, question[<<v[1], v[2]>>].questionId, v[3], v[4])}
       /\ threadManager_imResize' = resizeThread(threadManager_imResize, v, err)
       /\ tickQueue' = variantTicks(v, err)
  /\ UNCHANGED <<config, questionsData, question, img, threadManager_imIdentify,
                 build, indexFile>>

\* ------------------------------------------------------------ promise ticks
\* The handler Q runs next.
HeadIs(kind) == tickQueue # <<>> /\ Head(tickQueue).kind = kind
Later(ticks) == Tail(tickQueue) \o ticks

\* String -> array index, for questionsData[questionData.questionId].
ToNum(id) == CHOOSE n \in 0..6 : ToStr(n) = id

\* !imgFileData.path: no identify call saved a file.
notFound_never(imgFileData) == FALSE
notFound(imgFileData) == imgFileData.path = ""

\* What Q schedules when the handler below throws: the exception rejects the
\* promise that .then returned, which has no handler, and imgProcessComplete
\* stays pending, so nothing.
thrown_settlesImg(h) == <<Tick("imgSettled", h.r, h.p, "", 0)>>
thrown(h) == <<>>

\* Q.allSettled([foundImgPromises.png.promise, foundImgPromises.jpg.promise]):
\* one of the two promises has settled.
FoundImgSettled ==
  /\ HeadIs("foundImgSettled")
  /\ LET h == Head(tickQueue)
         x == <<h.r, h.p, h.img>>
     IN  /\ img' = [img EXCEPT ![x].probesLeft = @ - 1]
         /\ tickQueue' = Later(IF allSettled(img[x].probesLeft)
                               THEN <<Tick("onFoundImgsSettled", h.r, h.p, h.img, 0)>>
                               ELSE <<>>)
  /\ UNCHANGED <<config, questionsData, question, variant, threadManager_imIdentify,
                 threadManager_imResize, build, indexFile, files>>

\* The handler of that allSettled: throws when no file was identified, else
\* calls createImageVariant for every size.  fs.mkdirParent is taken to call
\* back before createImageVariant returns (directory creation is no suspension
\* point), so the resize threads are requested here, in the order of imgSizes.
OnFoundImgsSettled ==
  /\ HeadIs("onFoundImgsSettled")
  /\ LET h == Head(tickQueue)
         x == <<h.r, h.p, h.img>>
     IN  IF notFound(img[x])
         THEN /\ img' = [img EXCEPT ![x].threw = TRUE]
              /\ tickQueue' = Later(thrown(h))
              /\ UNCHANGED <<variant, threadManager_imResize>>
         ELSE /\ img' = [img EXCEPT ![x].aspectRatio = img[x].path,
                                    ![x].variantsLeft = Len(config.imgSizes)]
              /\ variant' = [v \in { <<h.r, h.p, h.img, size>> : size \in Range(config.imgSizes) }
                                |-> "pending"] @@ variant
              /\ threadManager_imResize' =
                   newThreads(threadManager_imResize,
                     [j \in 1..Len(config.imgSizes) |-> <<h.r, h.p, h.img, config.imgSizes[j]>>])
              /\ tickQueue' = Later(IF config.imgSizes = <<>>
                                    THEN <<Tick("onVariantsSettled", h.r, h.p, h.img, 0)>>
                                    ELSE <<>>)
  /\ UNCHANGED <<config, questionsData, question, threadManager_imIdentify,
                 build, indexFile, files>>

\* imageVariantPromise.then: imgVariantsData.srcs[size] = fileName.
SaveSrc ==
  /\ HeadIs("saveSrc")
  /\ LET h == Head(tickQueue)
         x == <<h.r, h.p, h.img>>
         fileName == apiFilePath(outputFileName(question[<<h.r, h.p>>].roundId,
                                   question[<<h.r, h.p>>].questionId, h.img, h.size))
     IN  img' = [img EXCEPT ![x].srcs = (h.size :> fileName) @@ @]
  /\ tickQueue' = Later(<<>>)
  /\ UNCHANGED <<config, questionsData, question, variant, threadManager_imIdentify,
                 threadManager_imResize, build, indexFile, files>>

\* Q.allSettled(imgVariantPromises): one variant promise has settled.
VariantSettled ==
  /\ HeadIs("variantSettled")
  /\ LET h == Head(tickQueue)
         x == <<h.r, h.p, h.img>>
     IN  /\ img' = [img EXCEPT ![x].variantsLeft = @ - 1]
         /\ tickQueue' = Later(IF allSettled(img[x].variantsLeft)
                               THEN <<Tick("onVariantsSettled", h.r, h.p, h.img, 0)>>
                               ELSE <<>>)
  /\ UNCHANGED <<config, questionsData, question, variant, threadManager_imIdentify,
                 threadManager_imResize, build, indexFile, files>>

\* The handler of that allSettled: imgProcessComplete.resolve(imgVariantsData).
OnVariantsSettled ==
  /\ HeadIs("onVariantsSettled")
  /\ LET h == Head(tickQueue)
     IN  /\ img' = [img EXCEPT ![<<h.r, h.p, h.img>>].promise = "fulfilled"]
         /\ tickQueue' = Later(<<Tick("saveImg", h.r, h.p, h.img, 0)>>)
  /\ UNCHANGED <<config, questionsData, question, variant, threadManager_imIdentify,
                 threadManager_imResize, build, indexFile, files>>

\* createImageVariants(...).then: tempImgsData[imgName] = imgVariantsData and
\* imgReadyPromise.resolve().
SaveImg ==
  /\ HeadIs("saveImg")
  /\ LET h == Head(tickQueue)
     IN  /\ question' = [question EXCEPT ![<<h.r, h.p>>].tempImgsData = @ \cup {h.img}]
         /\ img' = [img EXCEPT ![<<h.r, h.p, h.img>>].imgReady = "fulfilled"]
         /\ tickQueue' = Later(<<Tick("imgSettled", h.r, h.p, "", 0)>>)
  /\ UNCHANGED <<config, questionsData, variant, threadManager_imIdentify,
                 threadManager_imResize, build, indexFile, files>>

\* Q.allSettled(imgPromises): one imgReady promise has settled.
ImgSettled ==
  /\ HeadIs("imgSettled")
  /\ LET h == Head(tickQueue)
         x == <<h.r, h.p>>
     IN  /\ question' = [question EXCEPT ![x].imgsLeft = @ - 1]
         /\ tickQueue' = Later(IF allSettled(question[x].imgsLeft)
                               THEN <<Tick("onImgsSettled", h.r, h.p, "", 0)>>
                               ELSE <<>>)
  /\ UNCHANGED <<config, questionsData, img, variant, threadManager_imIdentify,
                 threadManager_imResize, build, indexFile, files>>

\* The handler of that allSettled: questionDataTemp.imgs is filled from
\* tempImgsData and the question's promise is resolved.
OnImgsSettled ==
  /\ HeadIs("onImgsSettled")
  /\ LET h == Head(tickQueue)
         x == <<h.r, h.p>>
     IN  /\ question' = [question EXCEPT
                ![x].hasImgs = TRUE,
                ![x].imgs = { k \in Range(imgKeys) : k \in question[x].tempImgsData },
                ![x].state = "fulfilled"]
         /\ tickQueue' = Later(<<Tick("saveQuestion", h.r, h.p, "", 0),
                                 Tick("questionSettled", h.r, h.p, "", 0)>>)
  /\ UNCHANGED <<config, questionsData, img, variant, threadManager_imIdentify,
                 threadManager_imResize, build, indexFile, files>>

\* questionDataReturnedPromise.then: the question is stored on the round.
SaveQuestion ==
  /\ HeadIs("saveQuestion")
  /\ LET h == Head(tickQueue)
         questionData == question[<<h.r, h.p>>]
     IN  questionsData' = [questionsData EXCEPT ![h.r + 1] =
           IF questionData.questionId # ExampleId
           THEN [@ EXCEPT !.questionsData = (ToNum(questionData.questionId) :> h.p) @@ @]
           ELSE [@ EXCEPT !.exampleData = {h.p}, !.fields = @ \cup {"exampleData"}]]
  /\ tickQueue' = Later(<<>>)
  /\ UNCHANGED <<config, question, img, variant, threadManager_imIdentify,
                 threadManager_imResize, build, indexFile, files>>

\* Q.allSettled(questionPromises): one question promise has settled.
QuestionSettled ==
  /\ HeadIs("questionSettled")
  /\ LET h == Head(tickQueue)
     IN  /\ questionsData' = [questionsData EXCEPT ![h.r + 1].questionsLeft = @ - 1]
         /\ tickQueue' = Later(IF allSettled(questionsData[h.r + 1].questionsLeft)
                               THEN <<Tick("onQuestionsSettled", h.r, 0, "", 0)>>
                               ELSE <<>>)
  /\ UNCHANGED <<config, question, img, variant, threadManager_imIdentify,
                 threadManager_imResize, build, indexFile, files>>

\* The handler of that allSettled: roundReadyPromise.resolve(roundData).
OnQuestionsSettled ==
  /\ HeadIs("onQuestionsSettled")
  /\ LET h == Head(tickQueue)
     IN  /\ questionsData' = [questionsData EXCEPT ![h.r + 1].promise = "fulfilled"]
         /\ tickQueue' = Later(<<Tick("saveRound", h.r, 0, "", 0),
                                 Tick("roundSettled", h.r, 0, "", 0)>>)
  /\ UNCHANGED <<config, question, img, variant, threadManager_imIdentify,
                 threadManager_imResize, build, indexFile, files>>

\* roundReturned.then: apiData.rounds[roundData.roundId] = roundData.
SaveRound ==
  /\ HeadIs("saveRound")
  /\ LET h == Head(tickQueue)
     IN  build' = [build EXCEPT !.rounds = @ \cup {questionsData[h.r + 1].roundId}]
  /\ tickQueue' = Later(<<>>)
  /\ UNCHANGED <<config, questionsData, question, img, variant, threadManager_imIdentify,
                 threadManager_imResize, indexFile, files>>

\* Q.allSettled(roundPromises): one round promise has settled.
RoundSettled ==
  /\ HeadIs("roundSettled")
  /\ build' = [build EXCEPT !.roundsLeft = @ - 1]
  /\ tickQueue' = Later(IF allSettled(build.roundsLeft)
                        THEN <<Tick("onRoundsSettled", 0, 0, "", 0)>> ELSE <<>>)
  /\ UNCHANGED <<config, questionsData, question, img, variant, threadManager_imIdentify,
                 threadManager_imResize, indexFile, files>>

\* JSON.stringify of a question object, a round object and apiData.
QuestionJson(x) ==
  [questionId |-> question[x].questionId,
   roundData |-> [roundId |-> question[x].roundId, title |-> question[x].title],
   name |-> question[x].dir,
   imgs |-> IF question[x].hasImgs
            THEN [k \in question[x].imgs |->
                    [aspectRatio |-> img[<<x[1], x[2], k>>].aspectRatio,
                     srcs |-> img[<<x[1], x[2], k>>].srcs]]
            ELSE <<>>]

RoundJson(rd) ==
  [title |-> rd.title,
   roundId |-> rd.roundId,
   questionsData |-> [k \in DOMAIN rd.questionsData |->
                        QuestionJson(<<rd.roundId, rd.questionsData[k]>>)],
   exampleData |-> { QuestionJson(<<rd.roundId, p>>) : p \in rd.exampleData }]

ApiJson == [rounds |-> [id \in build.rounds |-> RoundJson(questionsData[id + 1])]]

\* The handler of that allSettled: saveJsonApi(apiData); taskComplete.resolve().
OnRoundsSettled ==
  /\ HeadIs("onRoundsSettled")
  /\ indexFile' = {ApiJson}
  /\ build' = [build EXCEPT !.indexWrites = @ + 1, !.taskComplete = TRUE]
  /\ tickQueue' = Later(<<>>)
  /\ UNCHANGED <<config, questionsData, question, img, variant, threadManager_imIdentify,
                 threadManager_imResize, files>>

\* ------------------------------------------------------------- specification
Next ==
  \/ BuildApiMaster
  \/ \E t \in threadManager_imIdentify.running : IdentifyCallback(t)
  \/ \E v \in threadManager_imResize.running : ResizeCallback(v)
  \/ FoundImgSettled
  \/ OnFoundImgsSettled
  \/ SaveSrc
  \/ VariantSettled
  \/ OnVariantsSettled
  \/ SaveImg
  \/ ImgSettled
  \/ OnImgsSettled
  \/ SaveQuestion
  \/ QuestionSettled
  \/ OnQuestionsSettled
  \/ SaveRound
  \/ RoundSettled
  \/ OnRoundsSettled

Spec == Init /\ [][Next]_vars

\* The builds of a content tree of one round with one question, under every
\* configuration.
OneQuestionInit ==
  /\ Init
  /\ Len(questionsData) = 1
  /\ SumRefs(questionsData) = 1

\* Every pending callback is eventually invoked and Q runs every scheduled
\* handler: the event loop does not stop while it has something to run.
FairSpec == OneQuestionInit /\ [][Next]_vars /\ WF_vars(Next)

\* ------------------------------------------------- createImageVariant's paths
\* The configurations the paths are built under: the defaults, an output
\* directory whose name is also that of the image sub-directory, and another
\* path prefix.
PathConfigs ==
  { [apiOutputDir |-> d[1], imageOutputSubDir |-> d[2], apiPathPrefix |-> prefix,
     imgSizes |-> ImgSizes, imgFormat |-> "jpg", imThreadConcurrency |-> 1] :
      d \in { <<"./dist/api/", "imgs/">>, <<"api/", "api/">> },
      prefix \in { "/", "/api/" } }

PathInit ==
  /\ config \in PathConfigs
  /\ questionsData = <<>>
  /\ question = <<>>
  /\ img = <<>>
  /\ variant = <<>>
  /\ threadManager_imIdentify = imIdentifyThreads(config)
  /\ threadManager_imResize = imResizeThreads(config)
  /\ build = [pc |-> "idle", refs |-> 0, roundsLeft |-> 0,
              rounds |-> {}, taskComplete |-> FALSE, indexWrites |-> 0,
              run |-> 0, prev |-> [indexFile |-> {}, files |-> {}, faults |-> 0]]
  /\ indexFile = {}
  /\ files = {}
  /\ tickQueue = <<>>

\* The success path of createImageVariant's im.resize callback for one
\* (roundId, questionId, imgName, size): the file is written and the variant's
\* promise is resolved with the api file path, which `variant` keeps here.
ResolveVariant(roundId, questionId, imgName, size) ==
  /\ Cardinality(files) < MaxPaths
  /\ LET fileName == outputFileName(roundId, questionId, imgName, size)
     IN  /\ files' = files \cup {fileName}
         /\ variant' = (<<roundId, questionId, imgName, size>> :> apiFilePath(fileName))
                          @@ variant
  /\ UNCHANGED <<config, questionsData, question, img, threadManager_imIdentify,
                 threadManager_imResize, build, indexFile, tickQueue>>

PathNext ==
  \E roundId \in 0..MaxRoundId :
    \E questionId \in { ToStr(n) : n \in 0..MaxRoundId } \cup {ExampleId} :
      \E imgName \in Range(imgKeys) : \E size \in Range(config.imgSizes) :
        ResolveVariant(roundId, questionId, imgName, size)

PathSpec == PathInit /\ [][PathNext]_vars

\* ===================================================================== claims
IndexWritten == indexFile # {}
Completed == build.taskComplete /\ IndexWritten

\* The event loop is empty: no handler is scheduled and no external call is
\* outstanding, so nothing more will ever run.
EventLoopEmpty ==
  /\ build.pc = "running"
  /\ tickQueue = <<>>
  /\ threadManager_imIdentify.running = {}
  /\ \A v \in threadManager_imResize.running : variant[v] # "pending"

Rejected == { v \in Variants : variant[v] = "rejected" }
Sizes == Range(config.imgSizes)
Declared(rd) == 1..Len(rd.questions)
Loadable(rd) == { p \in Declared(rd) : IndexJsonExists(rd.questions[p]) }
LoadableExample(rd) == rd.example # NoExample /\ IndexJsonExists(rd.example)
Unloadable(rd) ==
  { p \in Declared(rd) : ~IndexJsonExists(rd.questions[p]) }
    \cup (IF rd.example # NoExample /\ ~IndexJsonExists(rd.example) THEN {ExamplePos} ELSE {})

\* The question records of the written index, each with the question object
\* it was written from.
IndexQuestions ==
  UNION { UNION { { [x |-> <<id, questionsData[id + 1].questionsData[k]>>,
                     json |-> doc.rounds[id].questionsData[k]] :
                      k \in DOMAIN doc.rounds[id].questionsData }
                  \cup { [x |-> <<id, ExamplePos>>, json |-> e] :
                           e \in doc.rounds[id].exampleData } :
                  id \in DOMAIN doc.rounds } : doc \in indexFile }

\* C1: the index is written at most once, and only when every round promise,
\* every question promise, every image promise, every identify call and every
\* variant promise of the run has settled and no limiter holds a task that has
\* yet to run or to call back.
C1_IndexOnlyAfterAllSettled ==
  /\ build.indexWrites <= 1
  /\ (build.indexWrites = 1) = IndexWritten
  /\ IndexWritten =>
       /\ \A i \in DOMAIN questionsData : questionsData[i].promise = "fulfilled"
       /\ \A x \in Insts : question[x].state = "fulfilled"
       /\ \A x \in Imgs :
            /\ img[x].png \in {"resolved", "rejected"}
            /\ img[x].jpg \in {"resolved", "rejected"}
            /\ img[x].promise = "fulfilled"
            /\ img[x].imgReady = "fulfilled"
            /\ \A size \in Sizes : <<x[1], x[2], x[3], size>> \in Variants
       /\ \A v \in Variants : variant[v] \in {"fulfilled", "rejected"}
       /\ threadManager_imIdentify.running = {}
       /\ threadManager_imIdentify.queue = <<>>
       /\ threadManager_imResize.queue = <<>>

C1_Witness ==
  /\ IndexWritten
  /\ Len(questionsData) >= 2
  /\ Cardinality(Variants) >= Len(imgKeys) * Len(config.imgSizes)

\* C2: under fairness of the event loop (every pending callback is invoked,
\* every scheduled handler runs) every build eventually writes the index and
\* resolves taskComplete, whatever identify and resize calls fail.
C2_BuildAlwaysCompletes == <>Completed

\* C3: each limiter runs at most imThreadConcurrency tasks at a time, and a
\* task waits in the queue only while that many are running.
C3_AtMostCInFlight ==
  \A tm \in {threadManager_imIdentify, threadManager_imResize} :
    /\ Cardinality(tm.running) <= config.imThreadConcurrency
    /\ tm.queue # <<>> => Cardinality(tm.running) = config.imThreadConcurrency

C3_Witness ==
  /\ config.imThreadConcurrency >= 2
  /\ Cardinality(threadManager_imIdentify.running) = config.imThreadConcurrency
  /\ Len(threadManager_imIdentify.queue) >= 2
  /\ Cardinality(threadManager_imResize.running) = config.imThreadConcurrency
  /\ threadManager_imResize.queue # <<>>

\* C4: a task that ended, with an error or without, holds no slot of its
\* limiter.
C4_EndedTaskHoldsNoSlot ==
  /\ \A v \in Variants :
       variant[v] \in {"fulfilled", "rejected"} => v \notin threadManager_imResize.running
  /\ \A x \in Imgs : \A t \in Range(imgTypes) :
       img[x][t] \in {"resolved", "rejected"} =>
         <<x[1], x[2], x[3], t>> \notin threadManager_imIdentify.running

\* C5: in the written index the numbered questions of a round are its loadable
\* declared questions, at array positions 0..n-1 in declaration order, each
\* with its position as questionId; the example is stored apart from them.
C5_QuestionIdsContiguous ==
  IndexWritten =>
    \A doc \in indexFile : \A id \in DOMAIN doc.rounds :
      LET rd == questionsData[id + 1]
          arr == rd.questionsData
          n == Cardinality(Loadable(rd))
      IN  /\ DOMAIN doc.rounds[id].questionsData = 0..(n - 1)
          /\ DOMAIN arr = 0..(n - 1)
          /\ \A k \in DOMAIN arr :
               /\ doc.rounds[id].questionsData[k].questionId = ToStr(k)
               /\ arr[k] \in Loadable(rd)
               /\ \A l \in DOMAIN arr : k < l => arr[k] < arr[l]
          /\ \A e \in doc.rounds[id].exampleData : e.questionId \notin { ToStr(k) : k \in 0..6 }
          /\ Cardinality(doc.rounds[id].exampleData) =
               (IF rd.example # NoExample /\ IndexJsonExists(rd.example) THEN 1 ELSE 0)

C5_Witness ==
  /\ IndexWritten
  /\ \E doc \in indexFile : \E id \in DOMAIN doc.rounds :
       Cardinality(DOMAIN doc.rounds[id].questionsData) >= 2

\* C6: a question whose metadata does not load gets no question object, no
\* identify call and no variant, and no entry in its round; and when no
\* external call fails the build still completes, with every other question
\* in the index with its three images at every size.
C6_UnloadableQuestionSkipped ==
  /\ build.pc = "running" =>
       \A i \in DOMAIN questionsData : \A p \in Unloadable(questionsData[i]) :
         /\ <<i - 1, p>> \notin Insts
         /\ \A x \in Imgs : <<x[1], x[2]>> # <<i - 1, p>>
         /\ \A t \in threadManager_imIdentify.running \cup Range(threadManager_imIdentify.queue) :
              <<t[1], t[2]>> # <<i - 1, p>>
         /\ \A v \in Variants : <<v[1], v[2]>> # <<i - 1, p>>
         /\ p \notin Range(questionsData[i].questionsData) \cup questionsData[i].exampleData
  /\ (EventLoopEmpty /\ Rejected = {} /\ \A x \in Imgs : ~img[x].threw) =>
       /\ Completed
       /\ \A i \in DOMAIN questionsData :
            \A p \in Loadable(questionsData[i])
                     \cup (IF LoadableExample(questionsData[i]) THEN {ExamplePos} ELSE {}) :
              \E e \in IndexQuestions :
                /\ e.x = <<i - 1, p>>
                /\ DOMAIN e.json.imgs = Range(imgKeys)
                /\ \A k \in Range(imgKeys) : DOMAIN e.json.imgs[k].srcs = Sizes

C6_Witness ==
  /\ Completed
  /\ Rejected = {}
  /\ \E i \in DOMAIN questionsData :
       /\ Unloadable(questionsData[i]) # {}
       /\ Loadable(questionsData[i]) # {}

\* C7 as claimed: the numbered questions of a round sit in questionsData at
\* their declaration index, so a question that failed to load leaves a gap.
C7_SparseArray ==
  IndexWritten =>
    \A i \in DOMAIN questionsData :
      LET rd == questionsData[i]
      IN  /\ \A p \in Loadable(rd) :
               (p - 1) \in DOMAIN rd.questionsData /\ rd.questionsData[p - 1] = p
          /\ \A p \in Declared(rd) \ Loadable(rd) : (p - 1) \notin DOMAIN rd.questionsData

\* C7 as amended: questionsData is compacted.  A loadable question sits at the
\* index that counts the loadable questions declared before it, so one that
\* failed to load leaves no gap and moves every later question down by one;
\* the array is as long as the round has loadable questions.
C7_CompactedArray ==
  IndexWritten =>
    \A doc \in indexFile : \A id \in DOMAIN doc.rounds :
      LET rd == questionsData[id + 1]
          before(p) == Cardinality({ l \in Loadable(rd) : l < p })
      IN  /\ \A p \in Loadable(rd) :
               /\ before(p) \in DOMAIN rd.questionsData
               /\ rd.questionsData[before(p)] = p
               /\ doc.rounds[id].questionsData[before(p)].questionId = ToStr(before(p))
          /\ Cardinality(DOMAIN doc.rounds[id].questionsData) = Cardinality(Loadable(rd))

C7_Witness ==
  /\ IndexWritten
  /\ \E i \in DOMAIN questionsData :
       \E p \in Unloadable(questionsData[i]) : \E l \in Loadable(questionsData[i]) :
         /\ ExamplePos < p
         /\ p < l
         /\ questionsData[i].questionsData[l - 2] = l

\* C8: in the written index the keys of an image's srcs are configured sizes,
\* they are exactly the sizes whose resize succeeded, and they are all the
\* configured sizes when no resize of that image failed.
C8_SrcsAreSucceededSizes ==
  \A e \in IndexQuestions : \A k \in DOMAIN e.json.imgs :
    LET srcs == e.json.imgs[k].srcs
        v(size) == <<e.x[1], e.x[2], k, size>>
    IN  /\ DOMAIN srcs \subseteq Sizes
        /\ DOMAIN srcs = { size \in Sizes : v(size) \in Variants /\ variant[v(size)] = "fulfilled" }
        /\ (\A size \in Sizes : v(size) \notin Rejected) => DOMAIN srcs = Sizes

C8_Witness ==
  \E e \in IndexQuestions : \E k \in DOMAIN e.json.imgs :
    /\ DOMAIN e.json.imgs[k].srcs # Sizes
    /\ DOMAIN e.json.imgs[k].srcs # {}
    /\ \E l \in DOMAIN e.json.imgs : DOMAIN e.json.imgs[l].srcs = Sizes

\* C9: when one resize fails, every image has a source and no other resize
\* fails, the build completes and the index lacks that one size of that one
\* image only.
C9_OneFailedSizeOnly ==
  (EventLoopEmpty /\ Cardinality(Rejected) = 1 /\ \A x \in Imgs : img[x].path # "") =>
    /\ Completed
    /\ \A x \in Insts : \E e \in IndexQuestions :
         /\ e.x = x
         /\ DOMAIN e.json.imgs = Range(imgKeys)
         /\ \A k \in Range(imgKeys) :
              DOMAIN e.json.imgs[k].srcs = { size \in Sizes : <<x[1], x[2], k, size>> \notin Rejected }

\* C10: once both identify calls of an image have ended without metadata, the
\* index is not written and taskComplete is not resolved, in that state and
\* ever after.
C10_MissingSourceStopsTheBuild ==
  (\E x \in Imgs : img[x].png = "rejected" /\ img[x].jpg = "rejected") =>
    ~IndexWritten /\ ~build.taskComplete /\ build.indexWrites = 0

C10_Witness ==
  /\ EventLoopEmpty
  /\ \E x \in Imgs : img[x].threw /\ img[x].png = "rejected" /\ img[x].jpg = "rejected"
  /\ \E x \in Imgs : img[x].promise = "fulfilled"

\* Both identify calls of an image returned metadata, and the handler that
\* picks the source has run.
BothFound(x) ==
  /\ img[x].png = "resolved"
  /\ img[x].jpg = "resolved"
  /\ img[x].aspectRatio # ""

\* C11: images whose source exists in both formats all get their aspect ratio
\* and variants from the same format, whatever the order of the callbacks.
C11_SourceIsDeterministic ==
  \A x \in Imgs : \A y \in Imgs :
    (BothFound(x) /\ BothFound(y)) => img[x].aspectRatio = img[y].aspectRatio

\* The current call of buildApiMaster has thrown, or nothing of it is left to
\* run.
RunEnded == build.pc = "threw" \/ EventLoopEmpty

\* C12: a second call of buildApiMaster, made after a first one in which no
\* external call deviated, completes and leaves the same index and the same
\* image files as the first.
C12_SecondRunSameOutput ==
  (build.run >= 2 /\ RunEnded /\ build.prev.faults = 0) =>
    /\ Completed
    /\ indexFile = build.prev.indexFile
    /\ files = build.prev.files

\* The file a variant task writes.
FileOf(v) ==
  outputFileName(question[<<v[1], v[2]>>].roundId, question[<<v[1], v[2]>>].questionId,
                 v[3], v[4])

\* C13: no two variant tasks of a run have the same output file, and the run
\* has written as many files as resizes have succeeded.
C13_OutputPathsDistinct ==
  build.pc = "running" =>
    /\ Cardinality({ FileOf(v) : v \in Variants }) = Cardinality(Variants)
    /\ Cardinality(files) = Cardinality({ v \in Variants : variant[v] = "fulfilled" })

\* Two references to the same directory in one round, and each has written a
\* file of the same image and size.
C13_Witness ==
  /\ build.pc = "running"
  /\ \E v \in Variants : \E w \in Variants :
       /\ v # w
       /\ v[1] = w[1] /\ v[3] = w[3] /\ v[4] = w[4]
       /\ question[<<v[1], v[2]>>].dir = question[<<w[1], w[2]>>].dir
       /\ variant[v] = "fulfilled" /\ variant[w] = "fulfilled"

\* The example records of the written index carry the id `sentinel`, in the
\* record and in the paths of their images; the numbered records never do.
ExampleIdentityIs(sentinel) ==
  /\ \A e \in IndexQuestions :
       IF e.x[2] = ExamplePos
       THEN /\ e.json.questionId = sentinel
            /\ \A k \in DOMAIN e.json.imgs : \A size \in DOMAIN e.json.imgs[k].srcs :
                 /\ outputFileName(e.x[1], sentinel, k, size) \in files
                 /\ e.json.imgs[k].srcs[size] =
                      apiFilePath(outputFileName(e.x[1], sentinel, k, size))
       ELSE e.json.questionId # sentinel
  /\ \A doc \in indexFile : \A id \in DOMAIN doc.rounds :
       \A k \in DOMAIN doc.rounds[id].questionsData :
         doc.rounds[id].questionsData[k].questionId # sentinel

\* C14 as claimed: the example question's identity is "example".
C14_ExampleIdIsExample == ExampleIdentityIs("example")

\* C14 as amended: the example question's identity is "e", in its record of
\* the written index and in the paths of its images; no numbered question has
\* that identity.
C14_ExampleIdIsE == ExampleIdentityIs("e")

C14_Witness ==
  /\ IndexWritten
  /\ \E e \in IndexQuestions : \E n \in IndexQuestions :
       /\ e.x[2] = ExamplePos
       /\ n.x[2] # ExamplePos
       /\ e.x[1] = n.x[1]
       /\ \E k \in DOMAIN e.json.imgs : DOMAIN e.json.imgs[k].srcs # {}

\* Both identify calls of an image have called back.
ProbesSettled(x) ==
  /\ img[x].png \in {"resolved", "rejected"}
  /\ img[x].jpg \in {"resolved", "rejected"}

\* C15: a variant of an image is created, and its resize requested from the
\* limiter, only when both identify calls of that image have called back.
C15_VariantsAfterBothProbes ==
  /\ \A v \in Variants : ProbesSettled(<<v[1], v[2], v[3]>>)
  /\ \A v \in threadManager_imResize.running \cup Range(threadManager_imResize.queue) :
       v \in Variants /\ ProbesSettled(<<v[1], v[2], v[3]>>)

\* One image has its variants while another, whose jpg was identified before
\* its png has called back, has none yet.
C15_Witness ==
  /\ \E v \in Variants : variant[v] = "pending"
  /\ \E y \in Imgs :
       /\ img[y].jpg = "resolved"
       /\ img[y].png = "pending"
       /\ \A v \in Variants : <<v[1], v[2], v[3]>> # y

\* C16: once a call of buildApiMaster has started, nothing of the previous
\* output tree is left; a call starts by emptying the tree; and after the
\* index of a run is written the run writes no file and no second index.
C16_DeleteThenVariantsThenIndex ==
  /\ [](build.pc # "idle" => \A f \in files : f \notin UNION PreviousTrees(config))
  /\ [][build'.run # build.run => (files' = {} /\ indexFile' = {})]_vars
  /\ [][(IndexWritten /\ build'.run = build.run) =>
         (files' = files /\ indexFile' = indexFile)]_vars

\* The index has been written after the image files of a question.
C16_Witness ==
  /\ IndexWritten
  /\ Cardinality(files) = Len(imgKeys) * Len(config.imgSizes)

\* C17: the api path a variant's promise resolves with is apiPathPrefix
\* followed by all of the file name after its leading apiOutputDir.
C17_ApiPathIsRemainder ==
  \A v \in DOMAIN variant :
    LET fileName == outputFileName(v[1], v[2], v[3], v[4])
    IN  /\ fileName[1] = config.apiOutputDir
        /\ variant[v] = <<config.apiPathPrefix>> \o SubSeq(fileName, 2, Len(fileName))

\* C18: the written index has a record for every round at the round's
\* position, in it a record for every question and example of the round whose
\* metadata loaded, and in every image's srcs every size whose resize
\* succeeded.
C18_NoResultLost ==
  \A doc \in indexFile :
    /\ DOMAIN doc.rounds = 0..(Len(questionsData) - 1)
    /\ \A id \in DOMAIN doc.rounds :
         LET rd == questionsData[id + 1]
         IN  /\ doc.rounds[id].roundId = id
             /\ \A p \in Loadable(rd) \cup (IF LoadableExample(rd) THEN {ExamplePos} ELSE {}) :
                  \E e \in IndexQuestions : e.x = <<id, p>>
    /\ \A e \in IndexQuestions : \A k \in Range(imgKeys) : \A size \in Sizes :
         LET v == <<e.x[1], e.x[2], k, size>>
         IN  (v \in Variants /\ variant[v] = "fulfilled") =>
               (k \in DOMAIN e.json.imgs /\ size \in DOMAIN e.json.imgs[k].srcs)

\* An index of two rounds, written after a resize succeeded and another
\* failed.
C18_Witness ==
  /\ IndexWritten
  /\ Len(questionsData) >= 2
  /\ Rejected # {}
  /\ \E v \in Variants : variant[v] = "fulfilled"

\* C19: every question record of the written index, numbered or example, has
\* the three images a, b and mix.
C19_EveryRecordHasThreeRoles ==
  \A e \in IndexQuestions : DOMAIN e.json.imgs = {"a", "b", "mix"}

\* The index holds a numbered record and an example record, and one of their
\* images lacks a size.
C19_Witness ==
  /\ \E e \in IndexQuestions : e.x[2] # ExamplePos
  /\ \E e \in IndexQuestions : e.x[2] = ExamplePos
  /\ \E e \in IndexQuestions : \E k \in DOMAIN e.json.imgs :
       DOMAIN e.json.imgs[k].srcs # Sizes

====
